---- MODULE Spec2Model ----
(***************************************************************************)
(* The article-injections form of the control panel                        *)
(* (ArticleInjectionsTabSection, ArticleTabInjectionForm, SelectorForm and *)
(* the yup formSchema), modelled as a state machine.                       *)
(*                                                                         *)
(* An id is modelled by the ordinal of its creation: the ids of the loaded *)
(* feed are numbered in load order, and each later v4() call returns the   *)
(* next unused ordinal (a v4 UUID never repeats an id handed out before).  *)
(***************************************************************************)
EXTENDS Integers, Sequences, FiniteSets, TLC

\* ------------------------------------------------------------------------
\* Bounds of the model
\* ------------------------------------------------------------------------
MaxIds == 4
MaxInputs == 1
MaxCalls == 2

\* ------------------------------------------------------------------------
\* Input domains
\* ------------------------------------------------------------------------
Labels == {"", "img", "link"}
CssSelectors == {"", "a"}
SourceFields == {"title", "summary"}
ErrorMessages == {"Network Error", "Bad Request"}
FeedId == "feed-1"
\* The handler that ran last.  late: the request that succeeded had been overtaken;
\* discarded: the reset replaced form values that differed from the snapshot.
Op(name) == [op |-> name, late |-> FALSE, discarded |-> FALSE]
NoNotification == [kind |-> "none", message |-> ""]
\* A useState value that is a number or undefined: {n} or {}
Undefined == {}
Number(n) == {n}
ValueOf(x) == CHOOSE n \in x : TRUE

Sel(id, label, css) == [id |-> id, label |-> label, cssSelector |-> css]
Inj(id, sf, sels) == [id |-> id, sourceField |-> sf, selectors |-> sels]

\* userFeed.articleInjections as delivered by the context: the feeds a
\* session can start from.  The form does not validate what it loads.
UserFeeds ==
  { << >>,
    << Inj(1, "title", << Sel(2, "img", "img"), Sel(3, "link", "a") >>) >>,
    << Inj(1, "title", << Sel(2, "img", "img"), Sel(3, "img", "a") >>),
       Inj(4, "summary", << Sel(5, "img", "a") >>) >>,
    << Inj(1, "title", << Sel(2, "", "") >>),
       Inj(3, "summary", << >>) >> }

VARIABLES
  values,            \* react-hook-form's current form values: values.injections
  defaultValues,     \* react-hook-form's default values: the dirty baseline
  errors,            \* the errors the resolver gave handleSubmit in the handler that ran last
  activeIndex,       \* useState: the index prop handed to the Accordion
  uncontrolledIndex, \* the Accordion's own index, used while activeIndex is undefined
  pending,           \* onSubmit invocations suspended at `await mutateAsync`
  calls,             \* number of mutateAsync calls made so far
  notification,      \* the notifySuccess / notifyError call of the handler that ran last
  nextId,            \* ordinal the next v4() call returns
  inputs,            \* number of field edits and accordion clicks so far
  lastOp             \* the handler that ran last

vars == << values, defaultValues, errors, activeIndex, uncontrolledIndex,
           pending, calls, notification, nextId, inputs, lastOp >>

\* ------------------------------------------------------------------------
\* Helpers
\* ------------------------------------------------------------------------
RemoveAt(s, n) == [ m \in 1..(Len(s) - 1) |-> IF m < n THEN s[m] ELSE s[m + 1] ]

RECURSIVE MaxOf(_)
MaxOf(S) == IF S = {} THEN 0
            ELSE LET x == CHOOSE y \in S : TRUE
                     m == MaxOf(S \ {x})
                 IN IF x > m THEN x ELSE m

\* Every id that occurs in a list of injections
IdsOf(injs) ==
  { injs[i].id : i \in DOMAIN injs }
    \cup UNION { { injs[i].selectors[k].id : k \in DOMAIN injs[i].selectors }
                 : i \in DOMAIN injs }

\* ------------------------------------------------------------------------
\* formSchema
\* ------------------------------------------------------------------------
Err(i, k, field, type) == [i |-> i, k |-> k, field |-> field, type |-> type]

\* Variant of UniqueTest: accepts a label as soon as it occurs at all
UniqueTest_AtLeastOnce(injection, value) ==
  LET names == [ k \in DOMAIN injection.selectors |-> injection.selectors[k].label ]
  IN (Len(names) = 0) \/ (Cardinality({ k \in DOMAIN names : names[k] = value }) >= 1)

\* .test("unique", ...): names.filter((n) => n === value).length === 1
UniqueTest(injection, value) ==
  LET names == [ k \in DOMAIN injection.selectors |-> injection.selectors[k].label ]
  IN (Len(names) = 0) \/ (Cardinality({ k \in DOMAIN names : names[k] = value }) = 1)

\* Variant of Validate: the selectors array has no minimum length
Validate_NoMin(injs) ==
  { Err(i, 0, "sourceField", "required") : i \in { j \in DOMAIN injs : injs[j].sourceField = "" } }
  \cup UNION { { Err(i, k, "label", "required")
                 : k \in { n \in DOMAIN injs[i].selectors : injs[i].selectors[n].label = "" } }
               : i \in DOMAIN injs }
  \cup UNION { { Err(i, k, "label", "unique")
                 : k \in { n \in DOMAIN injs[i].selectors
                           : ~UniqueTest(injs[i], injs[i].selectors[n].label) } }
               : i \in DOMAIN injs }
  \cup UNION { { Err(i, k, "cssSelector", "required")
                 : k \in { n \in DOMAIN injs[i].selectors : injs[i].selectors[n].cssSelector = "" } }
               : i \in DOMAIN injs }

\* yupResolver(formSchema) with abortEarly off: every failing test of every field
Validate(injs) ==
  { Err(i, 0, "sourceField", "required") : i \in { j \in DOMAIN injs : injs[j].sourceField = "" } }
  \cup { Err(i, 0, "selectors", "min") : i \in { j \in DOMAIN injs : Len(injs[j].selectors) < 1 } }
  \cup UNION { { Err(i, k, "label", "required")
                 : k \in { n \in DOMAIN injs[i].selectors : injs[i].selectors[n].label = "" } }
               : i \in DOMAIN injs }
  \cup UNION { { Err(i, k, "label", "unique")
                 : k \in { n \in DOMAIN injs[i].selectors
                           : ~UniqueTest(injs[i], injs[i].selectors[n].label) } }
               : i \in DOMAIN injs }
  \cup UNION { { Err(i, k, "cssSelector", "required")
                 : k \in { n \in DOMAIN injs[i].selectors : injs[i].selectors[n].cssSelector = "" } }
               : i \in DOMAIN injs }

\* ------------------------------------------------------------------------
\* Derived state
\* ------------------------------------------------------------------------
\* formState.isDirty: current values differ from the baseline
isDirty == values # defaultValues

\* The Accordion entry shown expanded (-1: none).  With index={undefined} the
\* Accordion is uncontrolled and shows its own index.
ExpandedIndex == IF activeIndex = Undefined THEN uncontrolledIndex ELSE ValueOf(activeIndex)

\* ------------------------------------------------------------------------
\* Initial state: useForm({defaultValues}) from the loaded feed
\* ------------------------------------------------------------------------
Init ==
  /\ values \in UserFeeds
  /\ defaultValues = values
  /\ errors = {}
  /\ activeIndex = Undefined
  /\ uncontrolledIndex = -1
  /\ pending = << >>
  /\ calls = 0
  /\ notification = NoNotification
  /\ nextId = MaxOf(IdsOf(values)) + 1
  /\ inputs = 0
  /\ lastOp = Op("init")

\* ------------------------------------------------------------------------
\* SelectorForm
\* ------------------------------------------------------------------------
\* Controller for injections.i.selectors.k.label
EditLabel(i, k, v) ==
  /\ i \in DOMAIN values
  /\ k \in DOMAIN values[i].selectors
  /\ values[i].selectors[k].label # v
  /\ inputs < MaxInputs
  /\ values' = [values EXCEPT ![i].selectors[k].label = v]
  /\ inputs' = inputs + 1
  /\ lastOp' = Op("editLabel")
  /\ notification' = NoNotification
  /\ errors' = {}
  /\ UNCHANGED << defaultValues, activeIndex, uncontrolledIndex, pending, calls, nextId >>

\* Controller for injections.i.selectors.k.cssSelector
EditCssSelector(i, k, v) ==
  /\ i \in DOMAIN values
  /\ k \in DOMAIN values[i].selectors
  /\ values[i].selectors[k].cssSelector # v
  /\ inputs < MaxInputs
  /\ values' = [values EXCEPT ![i].selectors[k].cssSelector = v]
  /\ inputs' = inputs + 1
  /\ lastOp' = Op("editCssSelector")
  /\ notification' = NoNotification
  /\ errors' = {}
  /\ UNCHANGED << defaultValues, activeIndex, uncontrolledIndex, pending, calls, nextId >>

\* Variant of DeleteSelector: the CloseButton is never disabled
DeleteSelector_AlwaysEnabled(i, k) ==
  /\ i \in DOMAIN values
  /\ k \in DOMAIN values[i].selectors
  /\ values' = [values EXCEPT ![i].selectors = RemoveAt(@, k)]
  /\ lastOp' = Op("deleteSelector")
  /\ notification' = NoNotification
  /\ errors' = {}
  /\ UNCHANGED << defaultValues, activeIndex, uncontrolledIndex, pending, calls, nextId, inputs >>

\* CloseButton: isDisabled={selectors.length === 1}, onClick remove(selectorIndex)
DeleteSelector(i, k) ==
  /\ i \in DOMAIN values
  /\ k \in DOMAIN values[i].selectors
  /\ ~(Len(values[i].selectors) = 1)
  /\ values' = [values EXCEPT ![i].selectors = RemoveAt(@, k)]
  /\ lastOp' = Op("deleteSelector")
  /\ notification' = NoNotification
  /\ errors' = {}
  /\ UNCHANGED << defaultValues, activeIndex, uncontrolledIndex, pending, calls, nextId, inputs >>

\* ------------------------------------------------------------------------
\* ArticleTabInjectionForm
\* ------------------------------------------------------------------------
\* Variant of AppendSelector: the new selector is put first
AppendSelector_Prepend(i) ==
  /\ i \in DOMAIN values
  /\ nextId <= MaxIds
  /\ values' = [values EXCEPT ![i].selectors = << Sel(nextId, "", "") >> \o @]
  /\ nextId' = nextId + 1
  /\ lastOp' = Op("appendSelector")
  /\ notification' = NoNotification
  /\ errors' = {}
  /\ UNCHANGED << defaultValues, activeIndex, uncontrolledIndex, pending, calls, inputs >>

\* "Add selector": append({id: v4(), label: "", cssSelector: ""})
AppendSelector(i) ==
  /\ i \in DOMAIN values
  /\ nextId <= MaxIds
  /\ values' = [values EXCEPT ![i].selectors = Append(@, Sel(nextId, "", ""))]
  /\ nextId' = nextId + 1
  /\ lastOp' = Op("appendSelector")
  /\ notification' = NoNotification
  /\ errors' = {}
  /\ UNCHANGED << defaultValues, activeIndex, uncontrolledIndex, pending, calls, inputs >>

\* ------------------------------------------------------------------------
\* ArticleInjectionsTabSection
\* ------------------------------------------------------------------------
\* Variant of AddInjection: setActiveIndex(fields.length - 1)
AddInjection_IndexOfLast(sourceField) ==
  /\ nextId + 1 <= MaxIds
  /\ values' = Append(values, Inj(nextId, sourceField, << Sel(nextId + 1, "", "") >>))
  /\ activeIndex' = Number(Len(values) - 1)
  /\ nextId' = nextId + 2
  /\ lastOp' = Op("addInjection")
  /\ notification' = NoNotification
  /\ errors' = {}
  /\ UNCHANGED << defaultValues, uncontrolledIndex, pending, calls, inputs >>

\* CreateArticleInjectionModal onSubmitted: append(...); setActiveIndex(fields.length)
AddInjection(sourceField) ==
  /\ nextId + 1 <= MaxIds
  /\ values' = Append(values, Inj(nextId, sourceField, << Sel(nextId + 1, "", "") >>))
  /\ activeIndex' = Number(Len(values))
  /\ nextId' = nextId + 2
  /\ lastOp' = Op("addInjection")
  /\ notification' = NoNotification
  /\ errors' = {}
  /\ UNCHANGED << defaultValues, uncontrolledIndex, pending, calls, inputs >>

\* "Delete" of an entry: remove(fieldIndex); setActiveIndex(undefined).
\* The Accordion is rendered only while fields.length is non-zero, so removing
\* the last entry unmounts it and its own index starts over.
RemoveInjection(i) ==
  /\ i \in DOMAIN values
  /\ values' = RemoveAt(values, i)
  /\ activeIndex' = Undefined
  /\ uncontrolledIndex' = IF Len(values) = 1 THEN -1 ELSE uncontrolledIndex
  /\ lastOp' = Op("removeInjection")
  /\ notification' = NoNotification
  /\ errors' = {}
  /\ UNCHANGED << defaultValues, pending, calls, nextId, inputs >>

\* A click on an AccordionButton (allowToggle): onChange={setActiveIndex}.
\* Accordion indices are 0-based; entry i of the list has index i - 1.
ToggleAccordion(i) ==
  /\ i \in DOMAIN values
  /\ inputs < MaxInputs
  /\ LET next == IF ExpandedIndex = i - 1 THEN -1 ELSE i - 1
     IN /\ uncontrolledIndex' = IF activeIndex = Undefined THEN next ELSE uncontrolledIndex
        /\ activeIndex' = Number(next)
  /\ inputs' = inputs + 1
  /\ lastOp' = Op("toggleAccordion")
  /\ notification' = NoNotification
  /\ errors' = {}
  /\ UNCHANGED << values, defaultValues, pending, calls, nextId >>

\* Variant of Request: the payload lists the injections last to first
Request_Reversed(data) ==
  [ data |-> data,
    payload |-> [feedId |-> FeedId,
                 data |-> [articleInjections |->
                             [ n \in DOMAIN data |-> data[Len(data) + 1 - n] ]]],
    overtaken |-> FALSE ]

\* The request onSubmit hands to mutateAsync, with the `data` its closure keeps
Request(data) ==
  [ data |-> data,
    payload |-> [feedId |-> FeedId, data |-> [articleInjections |-> data]],
    overtaken |-> FALSE ]

\* Variant of Submit: refused while a request is in flight
Submit_OneAtATime ==
  /\ calls < MaxCalls
  /\ pending = << >>
  /\ LET errs == Validate(values)
     IN /\ errors' = errs
        /\ IF errs = {}
           THEN /\ pending' = Append(pending, Request(values))
                /\ calls' = calls + 1
                /\ lastOp' = Op("submit")
           ELSE /\ UNCHANGED << pending, calls >>
                /\ lastOp' = Op("submitInvalid")
  /\ notification' = NoNotification
  /\ UNCHANGED << values, defaultValues, activeIndex, uncontrolledIndex, nextId, inputs >>

\* <form onSubmit={handleSubmit(onSubmit)}>: validate, and call onSubmit with the
\* values only when the resolver reports no error.  onSubmit runs up to its
\* `await mutateAsync(...)`.
Submit ==
  /\ calls < MaxCalls
  /\ LET errs == Validate(values)
     IN /\ errors' = errs
        /\ IF errs = {}
           THEN /\ pending' = Append(pending, Request(values))
                /\ calls' = calls + 1
                /\ lastOp' = Op("submit")
           ELSE /\ UNCHANGED << pending, calls >>
                /\ lastOp' = Op("submitInvalid")
  /\ notification' = NoNotification
  /\ UNCHANGED << values, defaultValues, activeIndex, uncontrolledIndex, nextId, inputs >>

\* The requests left once request j has succeeded.  A request submitted before j
\* with another payload is overtaken: a newer payload was saved before it settles.
Settle(j) ==
  [ m \in 1..(Len(pending) - 1) |->
      IF m < j
      THEN [pending[m] EXCEPT !.overtaken = @ \/ (pending[m].data # pending[j].data)]
      ELSE pending[m + 1] ]

\* Variant of SubmitSuccess: reset(data, {keepDefaultValues: true})
SubmitSuccess_KeepDefaultValues(j) ==
  /\ j \in DOMAIN pending
  /\ values' = pending[j].data
  /\ UNCHANGED defaultValues
  /\ errors' = {}
  /\ notification' = [kind |-> "success", message |-> "common.success.savedChanges"]
  /\ pending' = Settle(j)
  /\ lastOp' = [op |-> "submitSuccess", late |-> pending[j].overtaken,
                discarded |-> (values # pending[j].data)]
  /\ UNCHANGED << activeIndex, uncontrolledIndex, calls, nextId, inputs >>

\* Variant of SubmitSuccess: reset(data, {keepValues: true})
SubmitSuccess_KeepValues(j) ==
  /\ j \in DOMAIN pending
  /\ UNCHANGED values
  /\ defaultValues' = pending[j].data
  /\ errors' = {}
  /\ notification' = [kind |-> "success", message |-> "common.success.savedChanges"]
  /\ pending' = Settle(j)
  /\ lastOp' = [op |-> "submitSuccess", late |-> pending[j].overtaken,
                discarded |-> (values # pending[j].data)]
  /\ UNCHANGED << activeIndex, uncontrolledIndex, calls, nextId, inputs >>

\* mutateAsync resolves: reset(data); notifySuccess(...)
SubmitSuccess(j) ==
  /\ j \in DOMAIN pending
  /\ values' = pending[j].data
  /\ defaultValues' = pending[j].data
  /\ errors' = {}
  /\ notification' = [kind |-> "success", message |-> "common.success.savedChanges"]
  /\ pending' = Settle(j)
  /\ lastOp' = [op |-> "submitSuccess", late |-> pending[j].overtaken,
                discarded |-> (values # pending[j].data)]
  /\ UNCHANGED << activeIndex, uncontrolledIndex, calls, nextId, inputs >>

\* Variant of SubmitFailure: the catch branch resets the form as well
SubmitFailure_Reset(j, message) ==
  /\ j \in DOMAIN pending
  /\ values' = pending[j].data
  /\ defaultValues' = pending[j].data
  /\ notification' = [kind |-> "error", message |-> message]
  /\ pending' = RemoveAt(pending, j)
  /\ lastOp' = Op("submitFailure")
  /\ errors' = {}
  /\ UNCHANGED << activeIndex, uncontrolledIndex, calls, nextId, inputs >>

\* mutateAsync rejects: notifyError(..., err.message)
SubmitFailure(j, message) ==
  /\ j \in DOMAIN pending
  /\ notification' = [kind |-> "error", message |-> message]
  /\ pending' = RemoveAt(pending, j)
  /\ lastOp' = Op("submitFailure")
  /\ errors' = {}
  /\ UNCHANGED << values, defaultValues, activeIndex, uncontrolledIndex, calls, nextId, inputs >>

Next ==
  \/ \E i \in DOMAIN values : \E k \in DOMAIN values[i].selectors :
        \E v \in Labels : EditLabel(i, k, v)
  \/ \E i \in DOMAIN values : \E k \in DOMAIN values[i].selectors :
        \E v \in CssSelectors : EditCssSelector(i, k, v)
  \/ \E i \in DOMAIN values : \E k \in DOMAIN values[i].selectors : DeleteSelector(i, k)
  \/ \E i \in DOMAIN values : AppendSelector(i)
  \/ \E sf \in SourceFields : AddInjection(sf)
  \/ \E i \in DOMAIN values : RemoveInjection(i)
  \/ \E i \in DOMAIN values : ToggleAccordion(i)
  \/ Submit
  \/ \E j \in DOMAIN pending : SubmitSuccess(j)
  \/ \E j \in DOMAIN pending : \E m \in ErrorMessages : SubmitFailure(j, m)

Spec == Init /\ [][Next]_vars

\* ========================================================================
\* Properties
\* ========================================================================
NonEmptySelectors(injs) == \A i \in DOMAIN injs : Len(injs[i].selectors) >= 1

\* Every id the form holds: current values, baseline, and the snapshots in flight
AllIds ==
  IdsOf(values) \cup IdsOf(defaultValues)
    \cup UNION { IdsOf(pending[j].data) : j \in DOMAIN pending }

\* Selector k of injection i has a sibling with the same label
HasTwin(injs, i, k) ==
  \E n \in DOMAIN injs[i].selectors :
    n # k /\ injs[i].selectors[n].label = injs[i].selectors[k].label

Increasing(ids) == \A m, n \in DOMAIN ids : m < n => ids[m] < ids[n]

\* Entries stand in the order of their creation
InsertionOrder(injs) ==
  /\ Increasing([ i \in DOMAIN injs |-> injs[i].id ])
  /\ \A i \in DOMAIN injs :
       Increasing([ k \in DOMAIN injs[i].selectors |-> injs[i].selectors[k].id ])

\* C1: a submit attempt made while some injection has zero selectors fails
\* validation (with the minimum-length error of that injection) and makes no
\* feed-update call.
C1_EmptySelectorsBlockSubmit ==
  [][ (Submit /\ ~NonEmptySelectors(values))
        => /\ lastOp'.op = "submitInvalid"
           /\ \A i \in DOMAIN values :
                Len(values[i].selectors) = 0 => Err(i, 0, "selectors", "min") \in errors'
           /\ calls' = calls
           /\ pending' = pending ]_vars

C1_Witness ==
  /\ lastOp.op = "submitInvalid"
  /\ ~NonEmptySelectors(values)
  /\ \A e \in errors : e.type = "min"

C3_SelectorsNeverEmptied ==
  [][ /\ NonEmptySelectors(values) => NonEmptySelectors(values')
      /\ \A i \in DOMAIN values : \A k \in DOMAIN values[i].selectors :
           DeleteSelector(i, k) => Len(values'[i].selectors) >= 1 ]_vars

C3_Witness ==
  /\ lastOp.op = "deleteSelector"
  /\ NonEmptySelectors(values)
  /\ \E i \in DOMAIN values : Len(values[i].selectors) = 1

\* C4: when the remote call of a submit succeeds, the baseline becomes the
\* injection list that submit sent, success is notified, and the form is not dirty.
C4_BaselineIsSubmitted ==
  [][ \A j \in DOMAIN pending :
        SubmitSuccess(j)
          => /\ defaultValues' = pending[j].payload.data.articleInjections
             /\ notification'.kind = "success"
             /\ ~isDirty' ]_vars

C4_Witness ==
  /\ lastOp.op = "submitSuccess"
  /\ notification.kind = "success"
  /\ ~isDirty
  /\ defaultValues \notin UserFeeds

\* C5: when the remote call of a submit fails, the failure changes neither the
\* current injections nor the baseline (so not the dirty flag), notifies the
\* error with the failure's message, and issues no further call.
C5_FailureLeavesForm ==
  [][ \A j \in DOMAIN pending : \A m \in ErrorMessages :
        SubmitFailure(j, m)
          => /\ values' = values
             /\ defaultValues' = defaultValues
             /\ isDirty' = isDirty
             /\ notification' = [kind |-> "error", message |-> m]
             /\ calls' = calls
             /\ pending' = RemoveAt(pending, j) ]_vars

C5_Witness ==
  /\ lastOp.op = "submitFailure"
  /\ notification.kind = "error"
  /\ isDirty
  /\ pending = << >>

\* C6: a submit can start while another is in flight, and a success that
\* arrives after a newer payload was saved still makes its own, older snapshot
\* the baseline.
C6_OvertakenSuccessOverwrites ==
  [][ /\ (pending # << >> /\ calls < MaxCalls) => ENABLED Submit
      /\ \A j \in DOMAIN pending :
           (SubmitSuccess(j) /\ pending[j].overtaken)
             => defaultValues' = pending[j].data ]_vars

C6_Witness ==
  /\ lastOp.op = "submitSuccess"
  /\ lastOp.late
  /\ calls >= 2
  /\ ~isDirty

\* C7: appending a selector to injection i adds one selector at the end, blank
\* and with an id the form holds nowhere, and changes nothing else of the list.
C7_AppendSelectorFrame ==
  [][ \A i \in DOMAIN values :
        AppendSelector(i)
          => LET old == values[i].selectors
                 new == values'[i].selectors
             IN /\ Len(new) = Len(old) + 1
                /\ new[Len(new)].label = ""
                /\ new[Len(new)].cssSelector = ""
                /\ new[Len(new)].id \notin AllIds
                /\ \A k \in DOMAIN old : new[k] = old[k]
                /\ values'[i].id = values[i].id
                /\ values'[i].sourceField = values[i].sourceField
                /\ DOMAIN values' = DOMAIN values
                /\ \A n \in DOMAIN values : n # i => values'[n] = values[n] ]_vars

C7_Witness ==
  /\ lastOp.op = "appendSelector"
  /\ \E i \in DOMAIN values :
       /\ Len(values[i].selectors) >= 2
       /\ values[i].selectors[Len(values[i].selectors)] = Sel(nextId - 1, "", "")

\* C8: Add Injection puts one new injection at the end of the list, with fresh
\* ids, the supplied sourceField and one blank selector, and the new injection
\* is the expanded accordion entry.
C8_AddInjectionExpandsNew ==
  [][ \A sf \in SourceFields :
        AddInjection(sf)
          => LET new == values'[Len(values')]
             IN /\ Len(values') = Len(values) + 1
                /\ \A n \in DOMAIN values : values'[n] = values[n]
                /\ new.sourceField = sf
                /\ new.id \notin AllIds
                /\ Len(new.selectors) = 1
                /\ new.selectors[1].label = ""
                /\ new.selectors[1].cssSelector = ""
                /\ new.selectors[1].id \notin (AllIds \cup {new.id})
                /\ ExpandedIndex' = Len(values') - 1 ]_vars

\* A second injection is added after an earlier click or edit, and is the expanded one
C8_Witness ==
  /\ lastOp.op = "addInjection"
  /\ Len(values) = 2
  /\ ExpandedIndex = 1
  /\ inputs = 1

C10_SuccessDiscardsEdits ==
  [][ \A j \in DOMAIN pending :
        SubmitSuccess(j)
          => /\ values' = pending[j].data
             /\ values' = defaultValues'
             /\ lastOp'.discarded <=> (values' # values) ]_vars

C10_Witness ==
  /\ lastOp.op = "submitSuccess"
  /\ lastOp.discarded
  /\ ~isDirty
  /\ inputs >= 1

====
